---- MODULE Spec2Model ----
(***************************************************************************)
(* State-machine model of the PianoProcessor audio worklet                 *)
(* (src/unnamed/part_001, second listing, lines 256-504), of its CombFilter *)
(* class, of the two message ports of the first listing (lines 47-65) and  *)
(* of the host's processMidiEvent (src/src/hooks/usePianoSound.ts).        *)
(*                                                                         *)
(* Number representations                                                  *)
(*   gain      A gain g in (0,1] is held as its attenuation                *)
(*             -ln(g) * SAMPLE_RATE * 1000, an integer.  Multiplying a     *)
(*             gain by a factor adds the factor's attenuation.  The gain   *)
(*             0 (written by the "final kill") is the value GAIN_ZERO.     *)
(*   position  A fractional sample index is held in 1/POS_SCALE frames.    *)
(*   rate      Likewise in 1/POS_SCALE frames per output frame.            *)
(***************************************************************************)
EXTENDS Integers, Sequences, FiniteSets, TLC

(***************************************************************************)
(* Bounds of the model                                                     *)
(***************************************************************************)
MaxVoices == 2        \* note-on is not offered once the pool holds this many
BufferLength == 8     \* frames of one render block (output[0].length)
MaxSent == 4          \* no message is posted once this many were
CombInputMax == 4     \* M: a comb filter is given inputs in -M..M
MaxChannels == 3      \* process() is given at most this many output channels
MaxCalls == 3         \* startAudio() is not called once it was this often
MaxEvents == 2        \* no event is offered once the synthesizer got this many

(***************************************************************************)
(* Program constants                                                       *)
(***************************************************************************)
POS_SCALE == 1000
\* attenuation added per frame by DECAY_FACTOR = exp(-1/(SAMPLE_RATE*0.2)):
\* 1/(0.2*SAMPLE_RATE) neper = 5000 units
DECAY_FACTOR == 5000
\* attenuation added per frame by RELEASE_FACTOR =
\* exp(-ln(1000)/(SAMPLE_RATE*RELEASE_TIME)): ln(1000)*1000 = 6907.755 units
RELEASE_FACTOR == 6908
\* the literal 0.001 of "currentGain < 0.001": ln(1000)*SAMPLE_RATE*1000
SILENCE == 304632008
\* the gain 0
GAIN_ZERO == 2000000000
\* the buffer lengths of the four comb filters, baseDelay + 113, + 227,
\* + 331, + 443 frames, scaled down to a few frames
COMB_DELAYS == <<2, 3, 4, 6>>
\* their feedback coefficients 0.8, 0.78, 0.75, 0.72 in 1/1000
COMB_FEEDBACKS == <<800, 780, 750, 720>>

(***************************************************************************)
(* Inputs offered by the specifications                                    *)
(***************************************************************************)
Notes == {60, 61}
\* velocity 1.0
Velocities == {0}
\* velocity 1.0, and a velocity 39000 units above the silence threshold
\* (0.0010009), which eight frames of the re-strike fade carry below it
DecayVelocities == {0, 304593008}
DecayNotes == {60}
Transposes == {0, 1}
SampleRoots == {60}
SampleData == {[length |-> 14]}
MapPayloads == {(60 :> 60) @@ (61 :> 60)}
ConfigPayloads ==
  { [transpose |-> 0], [transpose |-> 1],
    [sustainEnabled |-> TRUE], [sustainEnabled |-> FALSE],
    [volume |-> -20, velocitySensitivity |-> 500] }
\* reverb amounts inside and outside [0, 1], in 1/1000, and the two gain
\* settings
ReverbPayloads ==
  { [reverb |-> 500], [reverb |-> 1500],
    [volume |-> -20, velocitySensitivity |-> 500] }
\* three blocks of BufferLength frames and the two interpolation frames
ReverbSampleData == {[length |-> 26]}
\* two blocks of BufferLength frames and the two interpolation frames
DecaySampleData == {[length |-> 18]}
\* the fields of DEFAULT_SETTINGS that processMidiEvent reads
\* (velocitySensitivity in 1/1000)
DEFAULT_SETTINGS ==
  [transpose |-> 0, sustainEnabled |-> FALSE, velocitySensitivity |-> 1000]
\* a key in the middle of the MIDI range and the highest key
HostNotes == {60, 127}
\* payload.velocity in 1/127 (useMidi posts data2 / 127)
HostVelocities == {100}
HostSettings ==
  { <<"transpose", 0>>, <<"transpose", 12>>,
    <<"sustainEnabled", TRUE>>, <<"sustainEnabled", FALSE>>,
    <<"velocitySensitivity", 500>> }

\* messages the main thread posts to the node: the MIDI port, one sample,
\* its map entry, and a transposition
UiMessages ==
  { [type |-> "init-midi-port", payload |-> [port |-> TRUE]],
    [type |-> "load-sample",
     payload |-> [midi |-> 60, data |-> [length |-> 14]]],
    [type |-> "update-map", payload |-> [map |-> (60 :> 60) @@ (61 :> 60)]],
    [type |-> "config", payload |-> [transpose |-> 1]] }
\* the bytes of the MIDI events the worker is given: key 60 down at full
\* velocity, key 60 up, pedal down
MidiEvents == { <<144, 60, 127>>, <<128, 60, 0>>, <<176, 64, 127>> }

\* constructor arguments of a CombFilter on its own: the four feedbacks
\* the engine passes, and one below 0.5
CombFeedbacks == {300, 720, 750, 780, 800}
CombLengths == {1, 2}

\* some of notesToLoad, and the notes struck around them
NotesToLoad == {48, 54, 60, 72}
AttackMidis == 50..70

\* keys an octave below the root, at the root, a fourth and an octave above
PitchNotes == {48, 60, 65, 72}
PitchMap == (48 :> 60) @@ (60 :> 60) @@ (65 :> 60) @@ (72 :> 60)
PitchTransposes == {0, 12}

\* samples too short to interpolate in, the shortest that is read, and a
\* longer one
ShortSampleData == {[length |-> l] : l \in {0, 1, 2, 3, 7}}
\* keys played at 1.335 times and twice the speed of the sample
ReadsNotes == {65, 72}

\* two keys of one sample, and a transposition by an octave
TransposeNotes == {60, 65}
TransposeValues == {0, 12}
\* the key the host is given
TransposeHostNotes == {60}

VARIABLES
  samples,              \* Map<number, Float32Array>: root -> sample
  sampleMap,            \* Map<number, number>: effective note -> root
  reverbWet,            \* in 1/1000
  sustainActive,
  notesPendingRelease,
  volume,               \* linear gain in 1/1000
  velocitySensitivity,  \* in 1/1000
  transpose,
  voices,               \* the voice pool, in array order
  combFilters,          \* the four CombFilter objects of the reverb
  lastOp,               \* history: the handler branch that ran last
  settings,             \* usePianoSound: settingsRef.current
  activeNotes,          \* usePianoSound: activeNotesRef.current
  synth,                \* usePianoSound: synthRef.current, as its calls left it
  port,                 \* messages in flight to this.port, oldest first
  midiPort,             \* messages in flight to the port of 'init-midi-port'
  midiPortOpen,         \* PianoProcessor: this.midiPort !== null
  audioPort,            \* midiWorker: audioPort !== null
  sent,                 \* history: the number of messages posted so far
  applied,              \* history: the send number of the message applied last
  comb,                 \* a CombFilter object on its own
  output,               \* outputs[0] as the last block left it: for each
                        \* channel and frame, the voices whose finalSignal
                        \* was added to the cell, in the order of the adds
  reads,                \* history: for the voices of the last block, the
                        \* length of the sample and the indices read from it
  pianoSamples,         \* Web Audio hook: the keys of pianoSamplesRef.current,
                        \* in insertion order
  attack,               \* history: what the last triggerAttack selected
  uiSustainEnabled,     \* history: payload.sustainEnabled of the last config
                        \* message that carried one (the always-sustain
                        \* setting as the engine was told it)
  audioContextRef,      \* usePianoSound: audioContextRef.current !== null
  ctxState,             \* usePianoSound: audioContextRef.current?.state
  synthRef,             \* usePianoSound: synthRef.current !== null
  isSamplesLoaded,      \* usePianoSound: the state isSamplesLoaded
  isSamplesLoadedRef,   \* usePianoSound: isSamplesLoadedRef.current
  initAudioPromiseRef,  \* usePianoSound: 0 for null, else the number of the
                        \* run whose promise initAudioPromiseRef.current is
  runs,                 \* the runs of the async function of initAudio, in
                        \* the order they were begun: where each one is
  callers,              \* the calls of startAudio(), in the order they were
                        \* made: where each one is, and the run it awaits
  synthLog              \* history: the MIDI events handed to the
                        \* synthesizer, oldest first

engine == <<samples, sampleMap, reverbWet, sustainActive, notesPendingRelease,
            volume, velocitySensitivity, transpose, voices, combFilters>>
\* the host side of usePianoSound
host == <<settings, activeNotes, synth>>
\* what one call of process() is observed to do to its buffers
block == <<output, reads>>
\* the settings of the user interface as sent to the engine
ui == <<uiSustainEnabled>>
\* the Web Audio version of usePianoSound
webAudio == <<pianoSamples, attack>>
\* the audio start-up of usePianoSound
audio == <<audioContextRef, ctxState, synthRef, isSamplesLoaded,
           isSamplesLoadedRef, initAudioPromiseRef, runs, callers, synthLog>>
\* the two message ports, their two ends, and the history of their use
chan == <<port, midiPort, midiPortOpen, audioPort, sent, applied>>
\* everything outside the PianoProcessor object
outside == <<settings, activeNotes, synth, port, midiPort, midiPortOpen,
             audioPort, sent, applied, comb, block, webAudio, ui, audio>>
vars == <<samples, sampleMap, reverbWet, sustainActive, notesPendingRelease,
          volume, velocitySensitivity, transpose, voices, combFilters,
          lastOp, settings, activeNotes, synth, port, midiPort, midiPortOpen,
          audioPort, sent, applied, comb, block, webAudio, ui, audio>>

\* history record: the handler branch and, for a note message, its note
Op(type, midi) == [type |-> type, midi |-> midi]

(***************************************************************************)
(* Pure helpers                                                            *)
(***************************************************************************)
\* Map.set(k, v)
MapSet(m, k, v) == [x \in (DOMAIN m) \cup {k} |-> IF x = k THEN v ELSE m[x]]

\* 1000 * 2^(r/12) for r = 0..11
SemitoneRatio ==
  <<1000, 1059, 1122, 1189, 1260, 1335, 1414, 1498, 1587, 1682, 1782, 1888>>

\* Math.pow(2, d / 12) in 1/POS_SCALE
Pow2Twelfth(d) ==
  LET q == d \div 12
      r == d % 12
  IN IF q >= 0 THEN SemitoneRatio[r + 1] * (2 ^ q)
               ELSE SemitoneRatio[r + 1] \div (2 ^ (0 - q))

\* Math.pow(10, db / 20) in 1/1000
DbToLinear(db) ==
  CASE db = 0 -> 1000
    [] db = -20 -> 100
    [] db = 20 -> 10000
    [] db = -40 -> 10
    [] OTHER -> 1000

\* the least element of a non-empty set of numbers
Min(S) == CHOOSE x \in S : \A y \in S : x <= y

\* gain * factor
GainMul(g, factor) == IF g = GAIN_ZERO THEN GAIN_ZERO ELSE g + factor

\* gain < 0.001
BelowSilence(g) == g > SILENCE

\* Math.floor(position)
Floor(pos) == pos \div POS_SCALE

\* the phase of a voice as the envelope of process() reads the two flags
Phase(v) ==
  IF v.isStopping THEN "Stopping"
  ELSE IF v.isReleasing THEN "Releasing"
  ELSE "Sounding"

\* identity of the object pushed by handleNoteOn
FreshId(vs) ==
  CHOOSE i \in 1..(Len(vs) + 1) :
    /\ \A k \in 1..Len(vs) : vs[k].id # i
    /\ \A j \in 1..(i - 1) : \E k \in 1..Len(vs) : vs[k].id = j

(***************************************************************************)
(* class CombFilter                                                        *)
(***************************************************************************)
\* Math.round-like rounding of a / b to the nearest integer, for b > 0:
\* the rounding of the stored product, in the units of the signal
RoundNearest(a, b) ==
  IF a >= 0 THEN (2 * a + b) \div (2 * b)
  ELSE 0 - ((2 * (0 - a) + b) \div (2 * b))

\* new CombFilter(delaySamples, feedback): a zeroed buffer, writeIndex 0
\* (buffer[i] of the source is buffer[i + 1] here)
NewCombFilter(delaySamples, feedback) ==
  [ buffer |-> [i \in 1..delaySamples |-> 0],
    writeIndex |-> 0,
    feedback |-> feedback ]

\* the value CombFilter.process(input) returns
CombOutput(cf) == cf.buffer[cf.writeIndex + 1]

\* variant: the feedback coefficient is not applied
CombProcess_FullFeedback(cf, input) ==
  [cf EXCEPT !.buffer[cf.writeIndex + 1] = input + CombOutput(cf),
             !.writeIndex = (cf.writeIndex + 1) % Len(cf.buffer)]

\* the filter after CombFilter.process(input)
CombProcess(cf, input) ==
  [cf EXCEPT !.buffer[cf.writeIndex + 1] =
               input + RoundNearest(CombOutput(cf) * cf.feedback, 1000),
             !.writeIndex = (cf.writeIndex + 1) % Len(cf.buffer)]

\* the filter after process() was called once for each input, in order
RECURSIVE CombRun(_, _)
CombRun(cf, inputs) ==
  IF inputs = <<>> THEN cf
  ELSE CombRun(CombProcess(cf, Head(inputs)), Tail(inputs))

(***************************************************************************)
(* Initial state: the fields of a constructed PianoProcessor               *)
(***************************************************************************)
Init ==
  /\ samples = <<>>
  /\ sampleMap = <<>>
  /\ reverbWet = 0
  /\ sustainActive = FALSE
  /\ notesPendingRelease = {}
  /\ volume = 1000
  /\ velocitySensitivity = 1000
  /\ transpose = 0
  /\ voices = <<>>
  /\ combFilters = [k \in 1..4 |->
                      NewCombFilter(COMB_DELAYS[k], COMB_FEEDBACKS[k])]
  /\ lastOp = Op("init", 0)
  /\ settings = DEFAULT_SETTINGS
  /\ activeNotes = <<>>
  /\ synth = [ready |-> FALSE, notes |-> <<>>, sustain |-> 0]
  /\ port = <<>>
  /\ midiPort = <<>>
  /\ midiPortOpen = FALSE
  /\ audioPort = FALSE
  /\ sent = 0
  /\ applied = 0
  /\ comb = NewCombFilter(COMB_DELAYS[1], COMB_FEEDBACKS[1])
  /\ output = << >>
  /\ reads = {}
  /\ uiSustainEnabled = FALSE
  /\ pianoSamples = << >>
  /\ attack = [actualMidi |-> 0, loadedMidis |-> << >>, closestMidi |-> 0]
  /\ audioContextRef = FALSE
  /\ ctxState = "none"
  /\ synthRef = FALSE
  /\ isSamplesLoaded = FALSE
  /\ isSamplesLoadedRef = FALSE
  /\ initAudioPromiseRef = 0
  /\ runs = << >>
  /\ callers = << >>
  /\ synthLog = << >>

(***************************************************************************)
(* Message handlers                                                        *)
(***************************************************************************)
\* case 'load-sample'
LoadSample(midi, data) ==
  /\ samples' = MapSet(samples, midi, data)
  /\ UNCHANGED combFilters
  /\ lastOp' = Op("load-sample", 0)
  /\ UNCHANGED <<sampleMap, reverbWet, sustainActive, notesPendingRelease,
                 volume, velocitySensitivity, transpose, voices>>

\* case 'update-map'
UpdateMap(map) ==
  /\ sampleMap' = [x \in (DOMAIN sampleMap) \cup (DOMAIN map) |->
                     IF x \in DOMAIN map THEN map[x] ELSE sampleMap[x]]
  /\ UNCHANGED combFilters
  /\ lastOp' = Op("update-map", 0)
  /\ UNCHANGED <<samples, reverbWet, sustainActive, notesPendingRelease,
                 volume, velocitySensitivity, transpose, voices>>

\* the two early returns of handleNoteOn
NoteOnDropped(midi) ==
  LET effectiveMidi == midi + transpose
  IN IF effectiveMidi \notin DOMAIN sampleMap THEN TRUE
     ELSE sampleMap[effectiveMidi] \notin DOMAIN samples

\* variant: only voices that are not yet releasing are stopped
MarkStopping_SkipReleasing(vs, midi) ==
  [k \in 1..Len(vs) |->
     IF vs[k].midi = midi /\ ~vs[k].isStopping /\ ~vs[k].isReleasing
     THEN [vs[k] EXCEPT !.isStopping = TRUE]
     ELSE vs[k]]

\* the forEach of handleNoteOn that marks earlier voices of the note
MarkStopping(vs, midi) ==
  [k \in 1..Len(vs) |->
     IF vs[k].midi = midi /\ ~vs[k].isStopping
     THEN [vs[k] EXCEPT !.isStopping = TRUE]
     ELSE vs[k]]

\* variant: the rate is computed from the note as requested
NewVoice_NoTranspose(vs, midi, velocity) ==
  LET effectiveMidi == midi + transpose
      sampleMidi == sampleMap[effectiveMidi]
  IN [ id |-> FreshId(vs),
       midi |-> midi,
       sample |-> samples[sampleMidi],
       position |-> 0,
       rate |-> Pow2Twelfth(midi - sampleMidi),
       velocity |-> velocity,
       currentGain |-> velocity,
       isReleasing |-> FALSE,
       isStopping |-> FALSE ]

\* variant: the voice remembers the transposed note
NewVoice_EffectiveMidi(vs, midi, velocity) ==
  LET effectiveMidi == midi + transpose
      sampleMidi == sampleMap[effectiveMidi]
  IN [ id |-> FreshId(vs),
       midi |-> effectiveMidi,
       sample |-> samples[sampleMidi],
       position |-> 0,
       rate |-> Pow2Twelfth(effectiveMidi - sampleMidi),
       velocity |-> velocity,
       currentGain |-> velocity,
       isReleasing |-> FALSE,
       isStopping |-> FALSE ]

\* the object pushed by handleNoteOn
NewVoice(vs, midi, velocity) ==
  LET effectiveMidi == midi + transpose
      sampleMidi == sampleMap[effectiveMidi]
  IN [ id |-> FreshId(vs),
       midi |-> midi,
       sample |-> samples[sampleMidi],
       position |-> 0,
       rate |-> Pow2Twelfth(effectiveMidi - sampleMidi),
       velocity |-> velocity,
       currentGain |-> velocity,
       isReleasing |-> FALSE,
       isStopping |-> FALSE ]

\* variant: the delete is missing
PendingAfterNoteOn_Keep(midi) == notesPendingRelease

\* "this.notesPendingRelease.delete(midi)", the last statement
PendingAfterNoteOn(midi) == notesPendingRelease \ {midi}

\* variant: the delete runs before the early returns
NoteOnResult_DeleteFirst(midi, velocity) ==
  IF NoteOnDropped(midi)
  THEN [ voices |-> voices,
         notesPendingRelease |-> PendingAfterNoteOn(midi) ]
  ELSE [ voices |-> Append(MarkStopping(voices, midi),
                           NewVoice(voices, midi, velocity)),
         notesPendingRelease |-> PendingAfterNoteOn(midi) ]

\* what handleNoteOn leaves in voices and notesPendingRelease
NoteOnResult(midi, velocity) ==
  IF NoteOnDropped(midi)
  THEN [ voices |-> voices,
         notesPendingRelease |-> notesPendingRelease ]
  ELSE [ voices |-> Append(MarkStopping(voices, midi),
                           NewVoice(voices, midi, velocity)),
         notesPendingRelease |-> PendingAfterNoteOn(midi) ]

handleNoteOn(midi, velocity) ==
  LET r == NoteOnResult(midi, velocity)
  IN /\ IF NoteOnDropped(midi) THEN TRUE ELSE Len(voices) < MaxVoices
     /\ voices' = r.voices
     /\ notesPendingRelease' = r.notesPendingRelease
     /\ UNCHANGED combFilters
     /\ lastOp' = Op(IF NoteOnDropped(midi) THEN "note-on-dropped"
                     ELSE "note-on", midi)
     /\ UNCHANGED <<samples, sampleMap, reverbWet, sustainActive,
                    volume, velocitySensitivity, transpose>>

\* variant: marking a voice releasing also clears its stopping flag
MarkReleasing_ClearStop(vs, midis) ==
  [k \in 1..Len(vs) |->
     IF vs[k].midi \in midis /\ ~vs[k].isReleasing
     THEN [vs[k] EXCEPT !.isReleasing = TRUE, !.isStopping = FALSE]
     ELSE vs[k]]

\* variant: the test of the note number is missing
MarkReleasing_AnyNote(vs, midis) ==
  [k \in 1..Len(vs) |->
     IF midis # {} /\ ~vs[k].isReleasing
     THEN [vs[k] EXCEPT !.isReleasing = TRUE]
     ELSE vs[k]]

\* variant: find instead of forEach, only the first match is marked
MarkReleasing_FirstOnly(vs, midis) ==
  [k \in 1..Len(vs) |->
     IF /\ vs[k].midi \in midis /\ ~vs[k].isReleasing
        /\ \A j \in 1..(k - 1) : ~(vs[j].midi \in midis /\ ~vs[j].isReleasing)
     THEN [vs[k] EXCEPT !.isReleasing = TRUE]
     ELSE vs[k]]

\* the forEach shared by handleNoteOff and handleSustain
MarkReleasing(vs, midis) ==
  [k \in 1..Len(vs) |->
     IF vs[k].midi \in midis /\ ~vs[k].isReleasing
     THEN [vs[k] EXCEPT !.isReleasing = TRUE]
     ELSE vs[k]]

\* variant: the return after the deferral is missing
NoteOffResult_NoReturn(midi) ==
  [ voices |-> MarkReleasing(voices, {midi}),
    notesPendingRelease |->
      IF sustainActive THEN notesPendingRelease \cup {midi}
      ELSE notesPendingRelease ]

\* what handleNoteOff leaves in voices and notesPendingRelease
NoteOffResult(midi) ==
  IF sustainActive
  THEN [ voices |-> voices,
         notesPendingRelease |-> notesPendingRelease \cup {midi} ]
  ELSE [ voices |-> MarkReleasing(voices, {midi}),
         notesPendingRelease |-> notesPendingRelease ]

handleNoteOff(midi) ==
  LET r == NoteOffResult(midi)
  IN /\ voices' = r.voices
     /\ notesPendingRelease' = r.notesPendingRelease
     /\ UNCHANGED combFilters
     /\ lastOp' = Op(IF sustainActive THEN "note-off-deferred"
                     ELSE "note-off", midi)
     /\ UNCHANGED <<samples, sampleMap, reverbWet, sustainActive,
                    volume, velocitySensitivity, transpose>>

\* variant: the pedal release releases every voice
SustainResult_ReleaseAll(active) ==
  IF sustainActive /\ ~active
  THEN [ sustainActive |-> active,
         notesPendingRelease |-> {},
         voices |-> MarkReleasing(voices, Notes) ]
  ELSE [ sustainActive |-> active,
         notesPendingRelease |-> notesPendingRelease,
         voices |-> voices ]

\* variant: pressing the pedal forgets the deferred note-offs
SustainResult_ClearOnDown(active) ==
  IF sustainActive /\ ~active
  THEN [ sustainActive |-> active,
         notesPendingRelease |-> {},
         voices |-> MarkReleasing(voices, notesPendingRelease) ]
  ELSE [ sustainActive |-> active,
         notesPendingRelease |-> IF active THEN {} ELSE notesPendingRelease,
         voices |-> voices ]

\* the state handleSustain(active) leaves in sustainActive,
\* notesPendingRelease and voices
SustainResult(active) ==
  IF sustainActive /\ ~active
  THEN [ sustainActive |-> active,
         notesPendingRelease |-> {},
         voices |-> MarkReleasing(voices, notesPendingRelease) ]
  ELSE [ sustainActive |-> active,
         notesPendingRelease |-> notesPendingRelease,
         voices |-> voices ]

handleSustain(active) ==
  LET r == SustainResult(active)
  IN /\ sustainActive' = r.sustainActive
     /\ notesPendingRelease' = r.notesPendingRelease
     /\ voices' = r.voices
     /\ UNCHANGED combFilters
     /\ lastOp' = Op(IF sustainActive /\ ~active THEN "sustain-release"
                     ELSE "sustain", 0)
     /\ UNCHANGED <<samples, sampleMap, reverbWet, volume,
                    velocitySensitivity, transpose>>

\* case 'config'
Config(payload) ==
  LET has(f) == f \in DOMAIN payload
      r == IF has("sustainEnabled") THEN SustainResult(payload.sustainEnabled)
           ELSE [ sustainActive |-> sustainActive,
                  notesPendingRelease |-> notesPendingRelease,
                  voices |-> voices ]
  IN /\ volume' = IF has("volume") THEN DbToLinear(payload.volume) ELSE volume
     /\ velocitySensitivity' = IF has("velocitySensitivity")
                               THEN payload.velocitySensitivity
                               ELSE velocitySensitivity
     /\ transpose' = IF has("transpose") THEN payload.transpose ELSE transpose
     /\ sustainActive' = r.sustainActive
     /\ notesPendingRelease' = r.notesPendingRelease
     /\ voices' = r.voices
     /\ reverbWet' = IF has("reverb") THEN payload.reverb ELSE reverbWet
     /\ UNCHANGED combFilters
     /\ lastOp' = Op(IF has("sustainEnabled") /\ sustainActive
                        /\ ~payload.sustainEnabled
                     THEN "config-release" ELSE "config", 0)
     /\ UNCHANGED <<samples, sampleMap>>

(***************************************************************************)
(* The render block                                                        *)
(***************************************************************************)
\* variant: the re-strike fade is forgotten
Envelope_ReleaseOnly(v) == IF v.isReleasing THEN RELEASE_FACTOR ELSE 0

\* variant: a voice that is neither stopping nor releasing fades as well
Envelope_AlwaysFade(v) ==
  IF v.isStopping THEN DECAY_FACTOR ELSE RELEASE_FACTOR

\* the factor the envelope multiplies currentGain by on one frame, as an
\* attenuation: DECAY_FACTOR, RELEASE_FACTOR, or none
Envelope(v) ==
  IF v.isStopping THEN DECAY_FACTOR
  ELSE IF v.isReleasing THEN RELEASE_FACTOR
  ELSE 0

\* currentGain when the frame loop arrives at frame n without a break:
\* n times through "currentGain *= factor" (the flags, and so the factor,
\* are fixed during a block)
GainAtFrame(v, n) == GainMul(v.currentGain, n * Envelope(v))

\* position when the frame loop arrives at frame n without a break:
\* n times through "position += rate"
PositionAtFrame(v, n) == v.position + n * v.rate

\* variant: the loop stops at the length of the sample, the cell read for
\* the interpolation forgotten
Breaks_AtLength(v, n) ==
  \/ Floor(PositionAtFrame(v, n)) >= v.sample.length
  \/ BelowSilence(GainAtFrame(v, n))

\* "if (index >= maxPos || voice.currentGain < 0.001)" at frame n
Breaks(v, n) ==
  \/ Floor(PositionAtFrame(v, n)) >= v.sample.length - 2
  \/ BelowSilence(GainAtFrame(v, n))

\* the frames of "for (let n = 0; n < bufferLength; n++)" at which the
\* loop would break; it stops at the first of them
BreakFrames(v, bufferLength) ==
  {n \in 0..(bufferLength - 1) : Breaks(v, n)}

\* the frame loop for one voice; a break is the "final kill"
RenderFrames(v, bufferLength) ==
  IF BreakFrames(v, bufferLength) = {}
  THEN [v EXCEPT !.currentGain = GainAtFrame(v, bufferLength),
                 !.position = PositionAtFrame(v, bufferLength)]
  ELSE [v EXCEPT !.currentGain = GAIN_ZERO,
                 !.position =
                   PositionAtFrame(v, Min(BreakFrames(v, bufferLength)))]

\* the number of frames the envelope multiplies currentGain before
\* "currentGain < 0.001" holds, for a sample long enough: the least n with
\* BelowSilence(GainAtFrame(v, n)), for a voice whose envelope fades
FramesToSilence(v) ==
  IF BelowSilence(v.currentGain) THEN 0
  ELSE ((SILENCE - v.currentGain) \div Envelope(v)) + 1

\* variant: the cleanup looks at the position only
Finished_PositionOnly(v) ==
  v.position >= (v.sample.length - 2) * POS_SCALE

\* variant: the cleanup looks at the gain only
Finished_GainOnly(v) == v.currentGain = GAIN_ZERO

\* "Cleanup finished voices"
Finished(v) ==
  \/ v.currentGain = GAIN_ZERO
  \/ v.position >= (v.sample.length - 2) * POS_SCALE

\* the number of frames of the block that the loop renders for one voice
FramesRendered(v, bufferLength) ==
  IF BreakFrames(v, bufferLength) = {} THEN bufferLength
  ELSE Min(BreakFrames(v, bufferLength))

\* "rawSample * voice.currentGain * this.volume" at frame n: the samples
\* offered hold silence (every frame is 0.0), so the product is 0.0
MonoSignal(v, n) == 0

\* the inputs a comb filter is given during one block, in call order: the
\* voice loop runs from the last voice to the first, and inside it the
\* frame loop calls cf.process(monoSignal) on every frame it renders
RECURSIVE CombInputs(_, _)
CombInputs(vs, bufferLength) ==
  IF vs = <<>> THEN <<>>
  ELSE LET v == vs[Len(vs)]
       IN [n \in 1..FramesRendered(v, bufferLength) |-> MonoSignal(v, n - 1)]
            \o CombInputs(SubSeq(vs, 1, Len(vs) - 1), bufferLength)

\* the adds "output[c][n] += finalSignal" made to frame n of a channel
\* during one block, in order, each named by the voice it renders: the
\* voice loop runs from the last voice to the first, and a voice adds to
\* the frames its frame loop reaches
RECURSIVE AddsAt(_, _, _)
AddsAt(vs, n, bufferLength) ==
  IF vs = << >> THEN << >>
  ELSE LET v == vs[Len(vs)]
       IN (IF n < FramesRendered(v, bufferLength) THEN <<v.id>> ELSE << >>)
            \o AddsAt(SubSeq(vs, 1, Len(vs) - 1), n, bufferLength)

\* variant: only outputL and outputR are written
OutputBlock_StereoOnly(channelCount) ==
  [c \in 1..channelCount |->
     [n \in 1..BufferLength |->
        IF c <= 2 THEN AddsAt(voices, n - 1, BufferLength) ELSE << >>]]

\* outputs[0] after the block: "output[c].fill(0)", then every add goes to
\* every channel (output[c][n] of the source is OutputBlock(..)[c+1][n+1])
OutputBlock(channelCount) ==
  [c \in 1..channelCount |->
     [n \in 1..BufferLength |-> AddsAt(voices, n - 1, BufferLength)]]

\* process(): what it does to the fields of the processor
ProcessEngine ==
  LET rendered == [k \in 1..Len(voices) |->
                     RenderFrames(voices[k], BufferLength)]
  IN /\ voices' = SelectSeq(rendered, LAMBDA v : ~Finished(v))
     /\ combFilters' =
          IF reverbWet > 0
          THEN [k \in 1..Len(combFilters) |->
                  CombRun(combFilters[k], CombInputs(voices, BufferLength))]
          ELSE combFilters
     /\ lastOp' = Op("process", 0)
     /\ UNCHANGED <<samples, sampleMap, reverbWet, sustainActive,
                    notesPendingRelease, volume, velocitySensitivity,
                    transpose>>

\* process(), the buffer it is given not being looked at
Process ==
  /\ ProcessEngine
  /\ UNCHANGED outside

\* the indices "sample[index]" and "sample[index + 1]" read for one voice
\* during a block: those of the frames its frame loop renders
IndicesRead(v, bufferLength) ==
  UNION { {Floor(PositionAtFrame(v, n)), Floor(PositionAtFrame(v, n)) + 1} :
            n \in 0..(FramesRendered(v, bufferLength) - 1) }

\* process(), with the reads of the sample buffers observed
ProcessReads ==
  /\ ProcessEngine
  /\ reads' = { [ length |-> voices[k].sample.length,
                   indices |-> IndicesRead(voices[k], BufferLength) ] :
                 k \in 1..Len(voices) }
  /\ UNCHANGED <<host, chan, comb, webAudio, ui, audio, output>>

\* process(inputs, outputs, parameters) with outputs[0] of channelCount
\* channels
ProcessOutput(channelCount) ==
  /\ ProcessEngine
  /\ output' = OutputBlock(channelCount)
  /\ UNCHANGED <<host, chan, comb, webAudio, ui, audio, reads>>

(***************************************************************************)
(* The host's MIDI event path (usePianoSound)                              *)
(***************************************************************************)
\* Math.max(lo, Math.min(hi, x))
Clamp(lo, hi, x) == IF x < lo THEN lo ELSE IF x > hi THEN hi ELSE x

\* Math.round(a / b) for a >= 0, b > 0
RoundDiv(a, b) == (2 * a + b) \div (2 * b)

\* Map.delete(k)
MapDelete(m, k) == [x \in (DOMAIN m) \ {k} |-> m[x]]

\* the value applyCurrentSettings sends to controller 64
SustainControl(enabled) == IF enabled THEN 127 ELSE 0

\* startAudio(): the synthesizer comes up with the current settings applied
startAudio ==
  synth' = [ready |-> TRUE, notes |-> <<>>,
            sustain |-> SustainControl(settings.sustainEnabled)]

\* updateSetting(key, value) and the effect that re-applies the settings
\* when one of volume, reverb, sustainEnabled, velocitySensitivity changed
updateSetting(key, value) ==
  /\ settings' = [settings EXCEPT ![key] = value]
  /\ synth' = IF synth.ready /\ key # "transpose"
              THEN [synth EXCEPT !.sustain =
                      SustainControl(settings'.sustainEnabled)]
              ELSE synth
  /\ lastOp' = Op("update-setting", 0)
  /\ UNCHANGED <<engine, activeNotes>>

\* "Math.max(0, Math.min(127, originalMidi + current.transpose))"
ShiftedMidi(originalMidi) ==
  Clamp(0, 127, originalMidi + settings.transpose)

\* processMidiEvent('sustain', {active})
processSustain(active) ==
  /\ synth' = [synth EXCEPT !.sustain =
                 IF settings.sustainEnabled THEN 127
                 ELSE IF active THEN 127 ELSE 0]
  /\ UNCHANGED activeNotes

\* processMidiEvent('note-on', {midi, velocity})
processNoteOn(originalMidi, payloadVelocity) ==
  LET shiftedMidi == ShiftedMidi(originalMidi)
      velocity == Clamp(1, 127,
                        RoundDiv(payloadVelocity * settings.velocitySensitivity,
                                 1000))
  IN /\ activeNotes' = MapSet(activeNotes, originalMidi, shiftedMidi)
     /\ synth' = [synth EXCEPT !.notes = MapSet(@, shiftedMidi, velocity)]

\* processMidiEvent('note-off', {midi})
processNoteOff(originalMidi) ==
  LET shiftedMidi == IF originalMidi \in DOMAIN activeNotes
                     THEN activeNotes[originalMidi]
                     ELSE ShiftedMidi(originalMidi)
  IN /\ activeNotes' = MapDelete(activeNotes, originalMidi)
     /\ synth' = [synth EXCEPT !.notes = MapDelete(@, shiftedMidi)]

\* handleMidiEvent: the event is processed when the synthesizer is running,
\* otherwise it is dropped and the audio is started
handleMidiEvent(type, midi, velocity, active) ==
  /\ IF ~synth.ready
     THEN startAudio /\ UNCHANGED activeNotes
     ELSE CASE type = "sustain" -> processSustain(active)
            [] type = "note-on" -> processNoteOn(midi, velocity)
            [] type = "note-off" -> processNoteOff(midi)
  /\ lastOp' = Op(IF synth.ready THEN "host-" \o type ELSE "host-start", midi)
  /\ UNCHANGED <<engine, settings>>

(***************************************************************************)
(* Specification                                                           *)
(***************************************************************************)
MsgLoadSample ==
  /\ \E midi \in SampleRoots, data \in SampleData : LoadSample(midi, data)
  /\ UNCHANGED outside
MsgUpdateMap ==
  /\ \E map \in MapPayloads : UpdateMap(map)
  /\ UNCHANGED outside
MsgNoteOn ==
  /\ \E midi \in Notes, velocity \in Velocities : handleNoteOn(midi, velocity)
  /\ UNCHANGED outside
MsgNoteOff ==
  /\ \E midi \in Notes : handleNoteOff(midi)
  /\ UNCHANGED outside
MsgSustain ==
  /\ \E active \in BOOLEAN : handleSustain(active)
  /\ UNCHANGED outside
MsgConfig ==
  /\ \E payload \in ConfigPayloads : Config(payload)
  /\ UNCHANGED outside


Next ==
  \/ MsgLoadSample
  \/ MsgUpdateMap
  \/ MsgNoteOn
  \/ MsgNoteOff
  \/ MsgSustain
  \/ MsgConfig
  \/ Process

Spec == Init /\ [][Next]_vars

\* One key struck at two velocities, so that voices are also silenced by
\* their envelope and not only by the end of their sample
DecayNoteOn ==
  /\ \E midi \in DecayNotes, velocity \in DecayVelocities :
       handleNoteOn(midi, velocity)
  /\ UNCHANGED outside
DecayNoteOff ==
  /\ \E midi \in DecayNotes : handleNoteOff(midi)
  /\ UNCHANGED outside


DecayLoadSample ==
  /\ \E midi \in SampleRoots, data \in DecaySampleData : LoadSample(midi, data)
  /\ UNCHANGED outside


DecayNext ==
  \/ DecayLoadSample
  \/ MsgUpdateMap
  \/ DecayNoteOn
  \/ DecayNoteOff
  \/ MsgSustain
  \/ Process

DecaySpec == Init /\ [][DecayNext]_vars

\* the host keeps calling process()
FairDecaySpec == DecaySpec /\ WF_vars(Process)

\* The reverb: one key, its sample, and config messages that set the
\* reverb amount
ReverbConfig ==
  /\ \E payload \in ReverbPayloads : Config(payload)
  /\ UNCHANGED outside

ReverbLoadSample ==
  /\ \E midi \in SampleRoots, data \in ReverbSampleData :
       LoadSample(midi, data)
  /\ UNCHANGED outside

ReverbNext ==
  \/ ReverbLoadSample
  \/ MsgUpdateMap
  \/ DecayNoteOn
  \/ DecayNoteOff
  \/ ReverbConfig
  \/ Process

ReverbSpec == Init /\ [][ReverbNext]_vars

(***************************************************************************)
(* The Web Audio version of usePianoSound: choice of the sample             *)
(***************************************************************************)
\* |a - b|
Distance(a, b) == IF a >= b THEN a - b ELSE b - a

\* "Array.from(keys).sort((a, b) => a - b)": the keys in ascending order
RECURSIVE SortAscending(_)
SortAscending(keys) ==
  IF keys = << >> THEN << >>
  ELSE LET least == Min({keys[i] : i \in 1..Len(keys)})
       IN <<least>> \o SortAscending(SelectSeq(keys, LAMBDA k : k # least))

\* variant: a later root at the same distance replaces the earlier one
Closer_OrEqual(prev, curr, actualMidi) ==
  IF Distance(curr, actualMidi) <= Distance(prev, actualMidi)
  THEN curr ELSE prev

\* the callback of reduce: "Math.abs(curr - actualMidi) <
\* Math.abs(prev - actualMidi) ? curr : prev"
Closer(prev, curr, actualMidi) ==
  IF Distance(curr, actualMidi) < Distance(prev, actualMidi)
  THEN curr ELSE prev

\* loadedMidis.reduce(callback) without an initial value, for a non-empty
\* array: it starts from the first element
RECURSIVE Reduce(_, _, _)
Reduce(prev, rest, actualMidi) ==
  IF rest = << >> THEN prev
  ELSE Reduce(Closer(prev, Head(rest), actualMidi), Tail(rest), actualMidi)

\* variant: the keys are taken in insertion order, without the sort
LoadedMidis_Unsorted == pianoSamples

\* loadedMidis of triggerAttack
LoadedMidis == SortAscending(pianoSamples)

\* closestMidi of triggerAttack
ClosestMidi(actualMidi) ==
  Reduce(Head(LoadedMidis), Tail(LoadedMidis), actualMidi)

\* loadNote(midi): "pianoSamplesRef.current.set(midi, audioBuffer)"; the
\* fetches complete in any order
loadNote(midi) ==
  /\ pianoSamples' = IF \E i \in 1..Len(pianoSamples) : pianoSamples[i] = midi
                     THEN pianoSamples ELSE Append(pianoSamples, midi)
  /\ lastOp' = Op("load-note", midi)
  /\ UNCHANGED <<engine, host, chan, comb, block, attack, ui, audio>>

\* triggerAttack, the branch of the sampled piano, with samples loaded
triggerAttack(actualMidi) ==
  /\ pianoSamples # << >>
  /\ attack' = [actualMidi |-> actualMidi, loadedMidis |-> LoadedMidis,
                closestMidi |-> ClosestMidi(actualMidi)]
  /\ lastOp' = Op("trigger-attack", actualMidi)
  /\ UNCHANGED <<engine, host, chan, comb, block, pianoSamples, ui, audio>>

SampleLoadNote == \E midi \in NotesToLoad : loadNote(midi)
SampleTriggerAttack == \E actualMidi \in AttackMidis : triggerAttack(actualMidi)

SampleNext ==
  \/ SampleLoadNote
  \/ SampleTriggerAttack

SampleSpec == Init /\ [][SampleNext]_vars

\* Pitch: keys up to an octave from the root of their sample, and the
\* transposition
PitchUpdateMap ==
  /\ UpdateMap(PitchMap)
  /\ UNCHANGED outside
PitchNoteOn ==
  /\ \E midi \in PitchNotes, velocity \in Velocities :
       handleNoteOn(midi, velocity)
  /\ UNCHANGED outside
PitchConfig ==
  /\ \E t \in PitchTransposes : Config([transpose |-> t])
  /\ UNCHANGED outside

PitchNext ==
  \/ MsgLoadSample
  \/ PitchUpdateMap
  \/ PitchNoteOn
  \/ PitchConfig
  \/ Process

PitchSpec == Init /\ [][PitchNext]_vars

\* Reads of the sample buffers: samples of every short length, played at
\* two rates
ReadsLoadSample ==
  /\ \E midi \in SampleRoots, data \in ShortSampleData : LoadSample(midi, data)
  /\ UNCHANGED outside

ReadsNoteOn ==
  /\ \E midi \in ReadsNotes, velocity \in Velocities :
       handleNoteOn(midi, velocity)
  /\ UNCHANGED outside

ReadsNext ==
  \/ ReadsLoadSample
  \/ PitchUpdateMap
  \/ ReadsNoteOn
  \/ ProcessReads

ReadsSpec == Init /\ [][ReadsNext]_vars

\* The output buffer: one key, its sample, the reverb, and blocks rendered
\* into one to MaxChannels channels
OutputRender == \E channelCount \in 1..MaxChannels : ProcessOutput(channelCount)

OutputNext ==
  \/ DecayLoadSample
  \/ MsgUpdateMap
  \/ DecayNoteOn
  \/ DecayNoteOff
  \/ OutputRender

OutputSpec == Init /\ [][OutputNext]_vars

\* The host: MIDI events and settings changes arriving at usePianoSound
HostNoteOn ==
  /\ \E midi \in HostNotes, velocity \in HostVelocities :
       handleMidiEvent("note-on", midi, velocity, FALSE)
  /\ UNCHANGED <<chan, comb, block, webAudio, ui, audio>>
HostNoteOff ==
  /\ \E midi \in HostNotes : handleMidiEvent("note-off", midi, 0, FALSE)
  /\ UNCHANGED <<chan, comb, block, webAudio, ui, audio>>
HostSustain ==
  /\ \E active \in BOOLEAN : handleMidiEvent("sustain", 0, 0, active)
  /\ UNCHANGED <<chan, comb, block, webAudio, ui, audio>>
HostUpdateSetting ==
  /\ \E kv \in HostSettings : updateSetting(kv[1], kv[2])
  /\ UNCHANGED <<chan, comb, block, webAudio, ui, audio>>

\* The always-sustain setting: config messages that carry sustainEnabled,
\* and the pedal
SettingConfig ==
  \E enabled \in BOOLEAN :
    /\ Config([sustainEnabled |-> enabled])
    /\ uiSustainEnabled' = enabled
    /\ UNCHANGED <<host, chan, comb, block, webAudio, audio>>

SettingNext ==
  \/ DecayLoadSample
  \/ MsgUpdateMap
  \/ DecayNoteOn
  \/ DecayNoteOff
  \/ MsgSustain
  \/ SettingConfig
  \/ Process

SettingSpec == Init /\ [][SettingNext]_vars

\* Transposition changed while keys are held, in the engine and in the host
TransposeNoteOn ==
  /\ \E midi \in TransposeNotes, velocity \in Velocities :
       handleNoteOn(midi, velocity)
  /\ UNCHANGED outside
TransposeNoteOff ==
  /\ \E midi \in TransposeNotes : handleNoteOff(midi)
  /\ UNCHANGED outside
TransposeConfig ==
  /\ \E t \in TransposeValues : Config([transpose |-> t])
  /\ UNCHANGED outside
TransposeHostNoteOn ==
  /\ \E midi \in TransposeHostNotes, velocity \in HostVelocities :
       handleMidiEvent("note-on", midi, velocity, FALSE)
  /\ UNCHANGED <<chan, comb, block, webAudio, ui, audio>>
TransposeHostNoteOff ==
  /\ \E midi \in TransposeHostNotes :
       handleMidiEvent("note-off", midi, 0, FALSE)
  /\ UNCHANGED <<chan, comb, block, webAudio, ui, audio>>
TransposeHostSetting ==
  /\ \E t \in TransposeValues : updateSetting("transpose", t)
  /\ UNCHANGED <<chan, comb, block, webAudio, ui, audio>>

TransposeNext ==
  \/ MsgLoadSample
  \/ PitchUpdateMap
  \/ TransposeNoteOn
  \/ TransposeNoteOff
  \/ TransposeConfig
  \/ Process
  \/ TransposeHostNoteOn
  \/ TransposeHostNoteOff
  \/ TransposeHostSetting

TransposeSpec == Init /\ [][TransposeNext]_vars

HostNext ==
  \/ HostNoteOn
  \/ HostNoteOff
  \/ HostSustain
  \/ HostUpdateSetting

HostSpec == Init /\ [][HostNext]_vars

(***************************************************************************)
(* Audio start-up (usePianoSound.ts, initAudio and startAudio)             *)
(*                                                                         *)
(* startAudio() and initAudio() are async functions: a call runs to its    *)
(* first await in one step and goes on, in a later step, when the promise  *)
(* it awaits has settled.  The async function whose promise is stored in   *)
(* initAudioPromiseRef is a run; it has two stretches of awaits, the       *)
(* set-up of the synthesizer ("worklet") and the loading of the SoundFont  *)
(* ("soundfont"), and ends "fulfilled" or "rejected".  A callers entry is  *)
(* "initAudio" while it awaits the run it began, "waiting" while it awaits *)
(* a run another call began, "resume" while it awaits ctx.resume(), and    *)
(* "returned" or "threw" when it is over.                                  *)
(***************************************************************************)
AudioEvents ==
  {[type |-> "note-on", midi |-> 60], [type |-> "note-off", midi |-> 60],
   [type |-> "sustain", midi |-> 0]}

\* the run has not settled
Pending(r) == runs[r] \in {"worklet", "soundfont"}

\* the test of handleMidiEvent
SynthReady_SynthOnly == synthRef
SynthReady == synthRef /\ ctxState = "running" /\ isSamplesLoadedRef

\* startAudio() past initAudio(): "if (state === 'suspended') await resume()"
AfterInit == IF ctxState = "suspended" THEN "resume" ELSE "returned"

\* initAudio() up to its first await, called by a new caller
initAudio_NoPromiseCheck ==
  IF audioContextRef /\ synthRef
  THEN /\ callers' = Append(callers, [pc |-> AfterInit, run |-> 0])
       /\ UNCHANGED <<initAudioPromiseRef, runs>>
  ELSE /\ runs' = Append(runs, "worklet")
       /\ initAudioPromiseRef' = Len(runs) + 1
       /\ callers' = Append(callers, [pc |-> "initAudio", run |-> Len(runs) + 1])
initAudio ==
  IF audioContextRef /\ synthRef
  THEN /\ callers' = Append(callers, [pc |-> AfterInit, run |-> 0])
       /\ UNCHANGED <<initAudioPromiseRef, runs>>
  ELSE IF initAudioPromiseRef # 0
  THEN /\ callers' = Append(callers,
                            [pc |-> "waiting", run |-> initAudioPromiseRef])
       /\ UNCHANGED <<initAudioPromiseRef, runs>>
  ELSE \* "new AudioContext(...)", then the first await of the run
       /\ runs' = Append(runs, "worklet")
       /\ initAudioPromiseRef' = Len(runs) + 1
       /\ callers' = Append(callers, [pc |-> "initAudio", run |-> Len(runs) + 1])

\* a call of startAudio(), up to its first await
callStartAudio ==
  /\ Len(callers) < MaxCalls
  /\ initAudio
  /\ UNCHANGED <<audioContextRef, ctxState, synthRef, isSamplesLoaded,
                 isSamplesLoadedRef, synthLog>>

\* the run gets past the set-up of the synthesizer, or the set-up and its
\* fallback both throw
RunWorklet(r, ok, state) ==
  /\ runs[r] = "worklet"
  /\ IF ok
     THEN /\ runs' = [runs EXCEPT ![r] = "soundfont"]
          /\ audioContextRef' = TRUE
          /\ ctxState' = state
          /\ synthRef' = TRUE
          \* applyCurrentSettings()
          /\ synth' = [ready |-> FALSE, notes |-> <<>>,
                       sustain |-> SustainControl(settings.sustainEnabled)]
     ELSE /\ runs' = [runs EXCEPT ![r] = "rejected"]
          /\ UNCHANGED <<audioContextRef, ctxState, synthRef, synth>>
  /\ lastOp' = Op("run-worklet", r)
  /\ UNCHANGED <<isSamplesLoaded, isSamplesLoadedRef, initAudioPromiseRef,
                 callers, synthLog>>
  /\ UNCHANGED <<engine, settings, activeNotes>>

\* the run loads the SoundFont, or finds none
RunSoundFont(r, ok) ==
  /\ runs[r] = "soundfont"
  /\ runs' = [runs EXCEPT ![r] = IF ok THEN "fulfilled" ELSE "rejected"]
  /\ isSamplesLoaded' = IF ok THEN TRUE ELSE isSamplesLoaded
  /\ lastOp' = Op("run-soundfont", r)
  /\ UNCHANGED <<audioContextRef, ctxState, synthRef, isSamplesLoadedRef,
                 initAudioPromiseRef, callers, synthLog>>
  /\ UNCHANGED <<engine, host>>

\* the effect "isSamplesLoadedRef.current = isSamplesLoaded"
AudioEffect ==
  /\ isSamplesLoadedRef # isSamplesLoaded
  /\ isSamplesLoadedRef' = isSamplesLoaded
  /\ UNCHANGED <<audioContextRef, ctxState, synthRef, isSamplesLoaded,
                 initAudioPromiseRef, runs, callers, synthLog>>
  /\ synth' = [synth EXCEPT !.ready = SynthReady']
  /\ lastOp' = Op("effect", 0)
  /\ UNCHANGED <<engine, settings, activeNotes>>
  /\ UNCHANGED <<chan, comb, block, webAudio, ui>>

\* the call that began the run goes on after "await initAudioPromiseRef.current"
InitAudioSettled(c) ==
  /\ callers[c].pc = "initAudio"
  /\ ~Pending(callers[c].run)
  /\ initAudioPromiseRef' = 0
  /\ IF runs[callers[c].run] = "rejected"
     THEN /\ isSamplesLoaded' = FALSE
          /\ callers' = [callers EXCEPT ![c].pc = "threw"]
     ELSE /\ UNCHANGED isSamplesLoaded
          /\ callers' = [callers EXCEPT ![c].pc = AfterInit]
  /\ lastOp' = Op("init-settled", c)
  /\ UNCHANGED <<audioContextRef, ctxState, synthRef, isSamplesLoadedRef,
                 runs, synthLog>>
  /\ UNCHANGED <<engine, host>>

\* a call that found a run in progress goes on after its await
WaitSettled(c) ==
  /\ callers[c].pc = "waiting"
  /\ ~Pending(callers[c].run)
  /\ callers' = [callers EXCEPT ![c].pc =
                   IF runs[callers[c].run] = "rejected" THEN "threw"
                   ELSE AfterInit]
  /\ lastOp' = Op("wait-settled", c)
  /\ UNCHANGED <<audioContextRef, ctxState, synthRef, isSamplesLoaded,
                 isSamplesLoadedRef, initAudioPromiseRef, runs, synthLog>>
  /\ UNCHANGED <<engine, host>>

\* "await audioContextRef.current.resume()" is over
Resumed(c) ==
  /\ callers[c].pc = "resume"
  /\ ctxState' = "running"
  /\ callers' = [callers EXCEPT ![c].pc = "returned"]
  /\ UNCHANGED <<audioContextRef, synthRef, isSamplesLoaded,
                 isSamplesLoadedRef, initAudioPromiseRef, runs, synthLog>>
  /\ synth' = [synth EXCEPT !.ready = SynthReady']
  /\ lastOp' = Op("resumed", c)
  /\ UNCHANGED <<engine, settings, activeNotes>>

\* handleMidiEvent, with "void startAudio()" as the call it begins
receiveMidiEvent(type, midi, velocity, active) ==
  /\ IF SynthReady
     THEN /\ Len(synthLog) < MaxEvents
          /\ CASE type = "sustain" -> processSustain(active)
               [] type = "note-on" -> processNoteOn(midi, velocity)
               [] type = "note-off" -> processNoteOff(midi)
          /\ synthLog' = Append(synthLog, Op(type, midi))
          /\ UNCHANGED <<audioContextRef, ctxState, synthRef, isSamplesLoaded,
                         isSamplesLoadedRef, initAudioPromiseRef, runs,
                         callers>>
     ELSE /\ callStartAudio
          /\ UNCHANGED <<synth, activeNotes>>
  /\ lastOp' = Op(IF SynthReady THEN "host-" \o type ELSE "host-start", midi)
  /\ UNCHANGED <<engine, settings>>

AudioMidiEvent ==
  /\ \E e \in AudioEvents, velocity \in HostVelocities, active \in BOOLEAN :
       receiveMidiEvent(e.type, e.midi, velocity, active)
  /\ UNCHANGED <<chan, comb, block, webAudio, ui>>
\* the start button: startAudio()
AudioUiStart ==
  /\ callStartAudio
  /\ lastOp' = Op("ui-start", 0)
  /\ UNCHANGED <<engine, host>>
  /\ UNCHANGED <<chan, comb, block, webAudio, ui>>
AudioRunWorklet ==
  \* a new AudioContext is suspended or running
  /\ \E r \in DOMAIN runs, ok \in BOOLEAN, state \in {"suspended", "running"} :
       RunWorklet(r, ok, state)
  /\ UNCHANGED <<chan, comb, block, webAudio, ui>>
AudioRunSoundFont ==
  /\ \E r \in DOMAIN runs, ok \in BOOLEAN : RunSoundFont(r, ok)
  /\ UNCHANGED <<chan, comb, block, webAudio, ui>>
AudioInitSettled ==
  /\ \E c \in DOMAIN callers : InitAudioSettled(c)
  /\ UNCHANGED <<chan, comb, block, webAudio, ui>>
AudioWaitSettled ==
  /\ \E c \in DOMAIN callers : WaitSettled(c)
  /\ UNCHANGED <<chan, comb, block, webAudio, ui>>
AudioResumed ==
  /\ \E c \in DOMAIN callers : Resumed(c)
  /\ UNCHANGED <<chan, comb, block, webAudio, ui>>

AudioNext ==
  \/ AudioMidiEvent
  \/ AudioUiStart
  \/ AudioRunWorklet
  \/ AudioRunSoundFont
  \/ AudioEffect
  \/ AudioInitSettled
  \/ AudioWaitSettled
  \/ AudioResumed

AudioSpec == Init /\ [][AudioNext]_vars

(***************************************************************************)
(* The two message ports (first listing of part_001, and midiWorker.ts)    *)
(***************************************************************************)
\* the message as the history stamps it when it is posted
Stamp(msg, n) == [type |-> msg.type, payload |-> msg.payload, stamp |-> n]

\* velocity: data2 / 127, as an attenuation
MidiVelocity(data2) ==
  CASE data2 = 127 -> 0
    [] data2 = 100 -> 10540645
    [] data2 = 64 -> 30221907

\* the message handleMidiMessage forwards for the bytes of one MIDI event,
\* as a sequence of at most one message
MidiMessage(command, data1, data2) ==
  IF command \in 144..159 /\ data2 > 0
  THEN << [type |-> "note-on",
           payload |-> [midi |-> data1, velocity |-> MidiVelocity(data2)]] >>
  ELSE IF command \in 128..143 \/ (command \in 144..159 /\ data2 = 0)
  THEN << [type |-> "note-off", payload |-> [midi |-> data1]] >>
  ELSE IF command = 176 /\ data1 = 64
  THEN << [type |-> "sustain", payload |-> [active |-> data2 >= 64]] >>
  ELSE << >>

\* midiWorker, self.onmessage case 'init': the worker is given its port
WorkerInit ==
  /\ audioPort' = TRUE
  /\ lastOp' = Op("worker-init", 0)
  /\ UNCHANGED <<engine, host, port, midiPort, midiPortOpen, sent, applied,
                 comb, block, webAudio, ui, audio>>

\* midiWorker, handleMidiMessage: "if (audioPort) ... audioPort.postMessage"
handleMidiMessage(command, data1, data2) ==
  LET out == IF audioPort THEN MidiMessage(command, data1, data2) ELSE << >>
  IN /\ sent < MaxSent
     /\ midiPort' = midiPort \o
                      [k \in 1..Len(out) |-> Stamp(out[k], sent + k)]
     /\ sent' = sent + Len(out)
     /\ lastOp' = Op("midi-event", data1)
     /\ UNCHANGED <<engine, host, port, midiPortOpen, audioPort, applied,
                    comb, block, webAudio, ui, audio>>

\* the main thread posts a message to the port of the node
UiSend(msg) ==
  /\ sent < MaxSent
  /\ port' = Append(port, Stamp(msg, sent + 1))
  /\ sent' = sent + 1
  /\ lastOp' = Op("post", 0)
  /\ UNCHANGED <<engine, host, midiPort, midiPortOpen, audioPort, applied,
                 comb, block, webAudio, ui, audio>>

\* handleMessage(data): the switch on data.type
handleMessage(data) ==
  /\ CASE data.type = "init-midi-port" ->
            /\ midiPortOpen' = (data.payload.port \/ midiPortOpen)
            /\ lastOp' = Op("init-midi-port", 0)
            /\ UNCHANGED engine
       [] data.type = "load-sample" ->
            /\ LoadSample(data.payload.midi, data.payload.data)
            /\ UNCHANGED midiPortOpen
       [] data.type = "update-map" ->
            /\ UpdateMap(data.payload.map)
            /\ UNCHANGED midiPortOpen
       [] data.type = "note-on" ->
            /\ handleNoteOn(data.payload.midi, data.payload.velocity)
            /\ UNCHANGED midiPortOpen
       [] data.type = "note-off" ->
            /\ handleNoteOff(data.payload.midi)
            /\ UNCHANGED midiPortOpen
       [] data.type = "sustain" ->
            /\ handleSustain(data.payload.active)
            /\ UNCHANGED midiPortOpen
       [] data.type = "config" ->
            /\ Config(data.payload)
            /\ UNCHANGED midiPortOpen
  /\ applied' = data.stamp

\* "this.port.onmessage": the oldest message of the node's port is handled
DeliverPort ==
  /\ port # << >>
  /\ handleMessage(Head(port))
  /\ port' = Tail(port)
  /\ UNCHANGED <<host, midiPort, audioPort, sent, comb, block, webAudio, ui,
                 audio>>

\* "payload.port.onmessage": the oldest message of the MIDI port is
\* handled, once 'init-midi-port' has installed the handler
DeliverMidiPort ==
  /\ midiPortOpen
  /\ midiPort # << >>
  /\ handleMessage(Head(midiPort))
  /\ midiPort' = Tail(midiPort)
  /\ UNCHANGED <<host, port, audioPort, sent, comb, block, webAudio, ui,
                 audio>>

ChannelUiSend == \E msg \in UiMessages : UiSend(msg)
ChannelMidiEvent == \E e \in MidiEvents : handleMidiMessage(e[1], e[2], e[3])

ChannelNext ==
  \/ WorkerInit
  \/ ChannelUiSend
  \/ ChannelMidiEvent
  \/ DeliverPort
  \/ DeliverMidiPort
  \/ Process

ChannelSpec == Init /\ [][ChannelNext]_vars

\* A CombFilter on its own: constructed, then given inputs of magnitude
\* at most CombInputMax
CombNew ==
  /\ \E delaySamples \in CombLengths, feedback \in CombFeedbacks :
       comb' = NewCombFilter(delaySamples, feedback)
  /\ lastOp' = Op("comb-new", 0)
  /\ UNCHANGED <<engine, host, chan, block, webAudio, ui, audio>>

CombStep ==
  /\ \E input \in (0 - CombInputMax)..CombInputMax :
       comb' = CombProcess(comb, input)
  /\ lastOp' = Op("comb-process", 0)
  /\ UNCHANGED <<engine, host, chan, block, webAudio, ui, audio>>

CombNext ==
  \/ CombNew
  \/ CombStep

CombSpec == Init /\ [][CombNext]_vars

(***************************************************************************)
(* Vocabulary of the properties                                            *)
(***************************************************************************)
Indices(vs) == 1..Len(vs)
HasId(vs, id) == \E k \in Indices(vs) : vs[k].id = id
ById(vs, id) == vs[CHOOSE k \in Indices(vs) : vs[k].id = id]
Sounding(v) == Phase(v) = "Sounding"

\* the step just taken applied a note-off for this note
IsNoteOff(op, midi) ==
  op.type \in {"note-off", "note-off-deferred"} /\ op.midi = midi
\* the step just taken applied a note-on for this note, accepted or not
IsNoteOn(op, midi) ==
  op.type \in {"note-on", "note-on-dropped"} /\ op.midi = midi
\* handleSustain(false) ran while the pedal was down
IsPedalRelease(op) == op.type \in {"sustain-release", "config-release"}

\* the sample of v runs out within the next block
RunsOut(v) ==
  v.position + BufferLength * v.rate >= (v.sample.length - 2) * POS_SCALE

(***************************************************************************)
(* C1  Sustain deferral                                                    *)
(***************************************************************************)
\* v is Sounding, the pedal is down, and a note-off for its note is
\* deferred: either already recorded, or being applied by this step
C1Deferred(v) ==
  /\ Sounding(v)
  /\ sustainActive
  /\ v.midi \in notesPendingRelease \/ IsNoteOff(lastOp', v.midi)

C1Held(v) ==
  /\ HasId(voices', v.id)
  /\ Sounding(ById(voices', v.id))
  /\ ById(voices', v.id).currentGain = v.currentGain

C1Released(v) ==
  /\ HasId(voices', v.id)
  /\ Phase(ById(voices', v.id)) = "Releasing"
  /\ ById(voices', v.id).currentGain = v.currentGain

\* C1 as stated: a Sounding voice whose note-off was deferred by the pedal
\* stays Sounding with unchanged gain over every render block and every
\* sustain(true) message, and a sustain(false) message makes it Releasing.
C1_AsStated ==
  [][\A k \in Indices(voices) :
       ( /\ C1Deferred(voices[k])
         /\ lastOp'.type \in {"process", "sustain", "sustain-release"} )
       => IF lastOp'.type = "sustain-release"
          THEN C1Released(voices[k])
          ELSE C1Held(voices[k])]_vars

\* C1 amended: the voice stays Sounding with unchanged gain, and its release
\* stays deferred, until handleSustain(false) runs (by a sustain message or
\* by a config message with sustainEnabled = false), which makes it
\* Releasing; before that it leaves Sounding only by a re-strike of its
\* note (it becomes Stopping) and leaves the pool only in a render block in
\* which its sample runs out or its gain is below the silence threshold.
C1_SustainDeferral ==
  [][\A k \in Indices(voices) :
       LET v == voices[k]
       IN C1Deferred(v) =>
            IF IsPedalRelease(lastOp') THEN C1Released(v)
            ELSE IF lastOp' = Op("note-on", v.midi)
            THEN /\ HasId(voices', v.id)
                 /\ Phase(ById(voices', v.id)) = "Stopping"
            ELSE IF lastOp'.type = "process" /\ ~HasId(voices', v.id)
            THEN RunsOut(v) \/ BelowSilence(v.currentGain)
            ELSE /\ C1Held(v)
                 /\ sustainActive'
                 /\ v.midi \in notesPendingRelease']_vars

\* a render block has passed over a Sounding voice whose release is deferred
C1_Witness ==
  /\ lastOp.type = "process"
  /\ sustainActive
  /\ \E k \in Indices(voices) :
       /\ Sounding(voices[k])
       /\ voices[k].midi \in notesPendingRelease
       /\ voices[k].position > 0
       /\ voices[k].currentGain = voices[k].velocity

(***************************************************************************)
(* C2  Pedal release                                                       *)
(***************************************************************************)
\* C2: a step that takes the pedal from down to up empties
\* notesPendingRelease, makes every Sounding voice whose note was in it
\* Releasing, and leaves every other Sounding voice Sounding; no voice is
\* added, removed or changed in gain.
C2_PedalRelease ==
  [][(sustainActive /\ ~sustainActive') =>
       /\ notesPendingRelease' = {}
       /\ Len(voices') = Len(voices)
       /\ \A k \in Indices(voices) :
            /\ voices'[k].id = voices[k].id
            /\ voices'[k].currentGain = voices[k].currentGain
            /\ Sounding(voices[k]) =>
                 Phase(voices'[k]) =
                   IF voices[k].midi \in notesPendingRelease
                   THEN "Releasing" ELSE "Sounding"]_vars

\* the pedal has just been released with one key let go and one still held
C2_Witness ==
  /\ lastOp.type = "sustain-release"
  /\ ~sustainActive
  /\ notesPendingRelease = {}
  /\ \E j, k \in Indices(voices) :
       /\ Phase(voices[j]) = "Releasing"
       /\ voices[j].currentGain = voices[j].velocity
       /\ Sounding(voices[k])
       /\ voices[k].midi # voices[j].midi

(***************************************************************************)
(* C3  notesPendingRelease                                                 *)
(***************************************************************************)
C3PedalUpEmpty == ~sustainActive => notesPendingRelease = {}

\* a note enters the set only by a note-off for it applied with the pedal down
C3Enter ==
  \A n \in Notes :
    (n \notin notesPendingRelease /\ n \in notesPendingRelease') =>
      (sustainActive /\ IsNoteOff(lastOp', n))

\* C3 as stated: the set is empty while the pedal is up; a note enters it
\* only by a note-off applied with the pedal down and is out of it after
\* every note-on message for that note, so that a member has always
\* received a note-off since its last note-on.
C3_AsStated ==
  /\ []C3PedalUpEmpty
  /\ [][/\ C3Enter
        /\ \A n \in Notes :
             IsNoteOn(lastOp', n) => n \notin notesPendingRelease']_vars

\* C3 amended: as stated, but counting only accepted note-ons, those that
\* created a voice: a note-on dropped for want of a pitch-map entry or of
\* a sample leaves the note in the set.
C3_PendingRelease ==
  /\ []C3PedalUpEmpty
  /\ [][/\ C3Enter
        /\ \A n \in Notes :
             lastOp' = Op("note-on", n) => n \notin notesPendingRelease']_vars

\* a note-off has just been deferred for a note that has a Sounding voice
C3_Witness ==
  /\ sustainActive
  /\ lastOp.type = "note-off-deferred"
  /\ lastOp.midi \in notesPendingRelease
  /\ \E k \in Indices(voices) :
       voices[k].midi = lastOp.midi /\ Sounding(voices[k])

(***************************************************************************)
(* C4  Re-strike                                                           *)
(***************************************************************************)
C4OneSounding ==
  \A n \in Notes :
    Cardinality({k \in Indices(voices) :
                   voices[k].midi = n /\ Sounding(voices[k])}) <= 1

\* C4: no note ever has two Sounding voices; an accepted note-on(n) appends
\* a Sounding voice for n and leaves every earlier voice of n Stopping,
\* with the pedal up or down.
C4_Restrike ==
  /\ []C4OneSounding
  /\ [][\A n \in Notes :
          lastOp' = Op("note-on", n) =>
            /\ Len(voices') = Len(voices) + 1
            /\ voices'[Len(voices')].midi = n
            /\ Sounding(voices'[Len(voices')])
            /\ \A k \in Indices(voices) :
                 /\ voices'[k].id = voices[k].id
                 /\ voices[k].midi = n => Phase(voices'[k]) = "Stopping"
                 /\ voices[k].midi # n => voices'[k] = voices[k]]_vars

\* a key has just been struck again with the pedal down
C4_Witness ==
  /\ lastOp.type = "note-on"
  /\ sustainActive
  /\ Len(voices) = 2
  /\ voices[1].midi = lastOp.midi
  /\ voices[2].midi = lastOp.midi
  /\ Phase(voices[1]) = "Stopping"
  /\ Sounding(voices[2])

(***************************************************************************)
(* C5  Phase transitions                                                   *)
(***************************************************************************)
\* C5 as stated: a voice changes phase only from Sounding; a re-strike
\* never moves a Releasing voice to Stopping, and a Stopping voice is never
\* marked Releasing.
C5_AsStated ==
  [][\A k \in Indices(voices) :
       LET v == voices[k]
       IN HasId(voices', v.id) =>
            LET w == ById(voices', v.id)
            IN /\ Phase(w) # Phase(v) => Sounding(v)
               /\ v.isStopping => w.isReleasing = v.isReleasing]_vars

\* C5 amended: the two flags are only ever set, so a voice is Stopping if
\* isStopping, else Releasing if isReleasing, else Sounding, and the phase
\* changes that occur are Sounding to Stopping, Sounding to Releasing and
\* Releasing to Stopping (a re-strike also stops the Releasing voices of
\* its note); a Stopping voice stays Stopping, although a note-off or a
\* pedal release may still set its isReleasing flag; a render block
\* changes no phase.
C5_PhaseTransitions ==
  [][\A k \in Indices(voices) :
       LET v == voices[k]
       IN HasId(voices', v.id) =>
            LET w == ById(voices', v.id)
            IN /\ v.isStopping => w.isStopping
               /\ v.isReleasing => w.isReleasing
               /\ Phase(w) # Phase(v) =>
                    /\ <<Phase(v), Phase(w)>> \in
                         { <<"Sounding", "Stopping">>,
                           <<"Sounding", "Releasing">>,
                           <<"Releasing", "Stopping">> }
                    /\ lastOp'.type # "process"
                    /\ Phase(w) = "Stopping" <=> lastOp' = Op("note-on", v.midi)]_vars

\* a re-strike has just moved a Releasing voice to Stopping
C5_Witness ==
  /\ lastOp.type = "note-on"
  /\ \E k \in Indices(voices) :
       /\ voices[k].midi = lastOp.midi
       /\ voices[k].isReleasing
       /\ voices[k].isStopping
       /\ voices[k].currentGain > voices[k].velocity

(***************************************************************************)
(* C6  No return to Sounding                                               *)
(***************************************************************************)
\* attenuation per frame of the phase's fade
FadeOf(v) == IF Phase(v) = "Stopping" THEN DECAY_FACTOR ELSE RELEASE_FACTOR

\* C6: a voice that is Stopping or Releasing is never Sounding again, and
\* over a render block it survives its gain is multiplied by its phase's
\* factor once for every frame its position advanced.
C6_NoReturnToSounding ==
  [][\A k \in Indices(voices) :
       LET v == voices[k]
       IN (~Sounding(v) /\ HasId(voices', v.id)) =>
            LET w == ById(voices', v.id)
            IN /\ ~Sounding(w)
               /\ lastOp'.type = "process" =>
                    /\ w.position > v.position
                    /\ w.currentGain =
                         v.currentGain
                           + ((w.position - v.position) \div v.rate) * FadeOf(v)]_vars

\* a re-struck voice has come out of a render block faded but still audible
C6_Witness ==
  /\ lastOp.type = "process"
  /\ \E k \in Indices(voices) :
       /\ Phase(voices[k]) = "Stopping"
       /\ ~voices[k].isReleasing
       /\ voices[k].currentGain > voices[k].velocity
       /\ ~BelowSilence(voices[k].currentGain)

(***************************************************************************)
(* C7  Eventual silence                                                    *)
(***************************************************************************)
\* C7: while render blocks keep being processed, every voice that is
\* Stopping or Releasing is eventually out of the pool, whatever messages
\* are applied meanwhile.
C7_EventualSilence ==
  \A id \in 1..MaxVoices :
    (HasId(voices, id) /\ ~Sounding(ById(voices, id)))
      ~> ~HasId(voices, id)

\* a released voice is part-way through its fade
C7_Witness ==
  /\ lastOp.type = "process"
  /\ \E k \in Indices(voices) :
       /\ Phase(voices[k]) = "Releasing"
       /\ voices[k].position > 0
       /\ voices[k].currentGain > voices[k].velocity

(***************************************************************************)
(* C8  Silence threshold after a block                                     *)
(***************************************************************************)
\* C8: after a render block no voice left in the pool has a gain below the
\* silence threshold.
C8_AsStated ==
  lastOp.type = "process" =>
    \A k \in Indices(voices) : ~BelowSilence(voices[k].currentGain)

(***************************************************************************)
(* C9  Buffer exhaustion                                                   *)
(***************************************************************************)
C9NoneExhausted ==
  lastOp.type = "process" =>
    \A k \in Indices(voices) :
      Floor(voices[k].position) < voices[k].sample.length - 2

\* C9: after a render block no voice left in the pool, in any phase, has
\* floor(position) at or beyond sampleLength - 2; and while render blocks
\* keep being processed every voice, a Sounding one that gets no note-off
\* included, is eventually out of the pool.
C9_BufferExhaustion ==
  /\ []C9NoneExhausted
  /\ \A id \in 1..MaxVoices : HasId(voices, id) ~> ~HasId(voices, id)

\* a Sounding voice has been rendered and its sample ends within the next
\* block
C9_Witness ==
  /\ lastOp.type = "process"
  /\ \E k \in Indices(voices) :
       /\ Sounding(voices[k])
       /\ voices[k].position > 0
       /\ RunsOut(voices[k])

(***************************************************************************)
(* C10  Silent drop                                                        *)
(***************************************************************************)
\* C10: a note-on whose effective note has no pitch-map entry, or whose
\* mapped root has no sample, changes no field of the processor.
C10_SilentDrop ==
  [][\A n \in Notes :
       ( /\ IsNoteOn(lastOp', n)
         /\ IF (n + transpose) \in DOMAIN sampleMap
            THEN sampleMap[n + transpose] \notin DOMAIN samples
            ELSE TRUE )
       => UNCHANGED engine]_vars

\* a note-on has just been dropped while voices live and its own release
\* is pending
C10_Witness ==
  /\ lastOp.type = "note-on-dropped"
  /\ lastOp.midi \in notesPendingRelease
  /\ \E k \in Indices(voices) : Sounding(voices[k])
  /\ \E k \in Indices(voices) : ~Sounding(voices[k])
(***************************************************************************)
(* C11  Out-of-range note-on                                               *)
(***************************************************************************)
\* C11: a note-on whose effective note (note + transpose) lies outside
\* 0..127 starts no note: the synthesizer's sounding keys and the host's
\* record of active notes are left as they were.
C11_AsStated ==
  [][\A midi \in HostNotes :
       ( /\ lastOp' = Op("host-note-on", midi)
         /\ (midi + settings.transpose) \notin 0..127 )
       => /\ synth'.notes = synth.notes
          /\ activeNotes' = activeNotes]_vars
(***************************************************************************)
(* C12  Clamping of configuration values                                   *)
(***************************************************************************)
\* C12: after any config message the stored reverb amount is within [0, 1].
C12_AsStated == reverbWet \in 0..1000

(***************************************************************************)
(* C17  Comb filters advance once per output frame                         *)
(***************************************************************************)
\* C17: over a render block with wet > 0 every comb filter is advanced once
\* for each output frame of the block, whatever the number of live voices:
\* its writeIndex moves on by the block length.
C17_AsStated ==
  [][(lastOp'.type = "process" /\ reverbWet > 0) =>
       \A k \in 1..Len(combFilters) :
         combFilters'[k].writeIndex =
           (combFilters[k].writeIndex + BufferLength)
             % Len(combFilters[k].buffer)]_vars
(***************************************************************************)
(* C13  Note-off without a matching voice                                  *)
(***************************************************************************)
\* no voice in the pool was started by this note number
C13NoMatch(n) == \A k \in Indices(voices) : voices[k].midi # n

\* C13 as stated: a note-off for a note with no live voice changes no
\* field of the processor, with the pedal up or down.
C13_AsStated ==
  [][\A n \in Notes :
       (IsNoteOff(lastOp', n) /\ C13NoMatch(n)) => UNCHANGED engine]_vars

\* C13 amended: a note-off for a note with no live voice leaves the voice
\* pool, the pedal flag, the configuration, the samples and the reverb as
\* they are; with the pedal up it changes nothing at all, with the pedal
\* down it adds the note number to notesPendingRelease.
C13_LateNoteOff ==
  [][\A n \in Notes :
       (IsNoteOff(lastOp', n) /\ C13NoMatch(n)) =>
         /\ UNCHANGED <<samples, sampleMap, reverbWet, sustainActive, volume,
                        velocitySensitivity, transpose, voices, combFilters>>
         /\ notesPendingRelease' =
              IF sustainActive THEN notesPendingRelease \cup {n}
              ELSE notesPendingRelease]_vars

\* with the pedal down, a note-off has just been recorded for a note that
\* has no voice, while a voice of another note sounds
C13_Witness ==
  /\ lastOp.type = "note-off-deferred"
  /\ sustainActive
  /\ lastOp.midi \in notesPendingRelease
  /\ C13NoMatch(lastOp.midi)
  /\ \E k \in Indices(voices) : Sounding(voices[k])

WithinCombBound(x, f) ==
  (IF x < 0 THEN 0 - x ELSE x) * (1000 - f) <= CombInputMax * 1000

\* every stored cell (the value process() returns is one of them) is
\* within the bound, and writeIndex is an index of the buffer
CombStable(cf) ==
  /\ \A i \in 1..Len(cf.buffer) : WithinCombBound(cf.buffer[i], cf.feedback)
  /\ cf.writeIndex \in 0..(Len(cf.buffer) - 1)

AsStopping(v) == [v EXCEPT !.isStopping = TRUE]
AsReleasing(v) == [v EXCEPT !.isStopping = FALSE, !.isReleasing = TRUE]

\* C19: starting from the same gain, a voice in Stopping falls below the
\* silence threshold in strictly fewer rendered frames than a voice in
\* Releasing
C19_AsStated ==
  \A k \in Indices(voices) :
    ~BelowSilence(voices[k].currentGain)
      => FramesToSilence(AsStopping(voices[k]))
           < FramesToSilence(AsReleasing(voices[k]))

\* C20: between render blocks the gain of every Sounding voice equals the
\* velocity fixed at its note-on, however many blocks were rendered and
\* whatever config message (volume, velocity sensitivity, reverb) was
\* applied since
C20_SoundingGain ==
  \A k \in Indices(voices) :
    Sounding(voices[k]) => voices[k].currentGain = voices[k].velocity

\* a Sounding voice that two blocks have rendered, with the volume, the
\* velocity sensitivity and the reverb amount changed by config messages
C20_Witness ==
  /\ lastOp.type = "process"
  /\ volume # 1000
  /\ velocitySensitivity # 1000
  /\ reverbWet > 0
  /\ \E k \in Indices(voices) :
       /\ Sounding(voices[k])
       /\ voices[k].position = 2 * BufferLength * voices[k].rate

\* the step just taken applied a sustain(true) message
IsPedalDown(op, active) == op.type = "sustain" /\ active

\* C21: a sustain(true) message changes only the pedal flag: the voices
\* (their phases, gains and positions) and the deferred note-offs are as
\* before, as is every other field; when the pedal was already down
\* nothing changes at all
C21_PedalDown ==
  [][ IsPedalDown(lastOp', sustainActive')
        => /\ voices' = voices
           /\ notesPendingRelease' = notesPendingRelease
           /\ UNCHANGED <<samples, sampleMap, reverbWet, volume,
                          velocitySensitivity, transpose, combFilters>>
           /\ (sustainActive => UNCHANGED engine) ]_vars

\* a sustain(true) message applied with the pedal already down, a note-off
\* deferred, one voice Sounding and another Releasing
C21_Witness ==
  /\ IsPedalDown(lastOp, sustainActive)
  /\ notesPendingRelease # {}
  /\ \E k \in Indices(voices) : Sounding(voices[k])
  /\ \E k \in Indices(voices) : Phase(voices[k]) = "Releasing"

\* C22: with the pedal up, note-off(n) moves every Sounding voice whose
\* note is n to Releasing, changing nothing else of it, and leaves the
\* voices of every other note as they were
C22_ImmediateRelease ==
  [][ \A n \in Notes :
        (lastOp'.type = "note-off" /\ lastOp'.midi = n)
          => /\ Len(voices') = Len(voices)
             /\ \A k \in Indices(voices) :
                  /\ (voices[k].midi = n /\ Sounding(voices[k]))
                       => voices'[k] = [voices[k] EXCEPT !.isReleasing = TRUE]
                  /\ voices[k].midi # n => voices'[k] = voices[k] ]_vars

\* a note-off for 60 applied with the pedal up: its re-struck voice is
\* Stopping, its latest voice went from Sounding to Releasing
C22_Witness ==
  /\ lastOp = Op("note-off", 60)
  /\ ~sustainActive
  /\ \E j, k \in Indices(voices) :
       /\ j < k
       /\ voices[j].midi = 60 /\ Phase(voices[j]) = "Stopping"
       /\ voices[j].isReleasing
       /\ voices[k].midi = 60 /\ Phase(voices[k]) = "Releasing"
       /\ voices[k].position = 0

\* C23: after every render block, whatever the channel count, every output
\* channel holds what the first one holds
C23_MonoDuplicated ==
  \A c \in 1..Len(output) : output[c] = output[1]

\* a block rendered into three channels in which two voices sounded
C23_Witness ==
  /\ lastOp.type = "process"
  /\ Len(output) >= 3
  /\ Len(output[3][1]) = 2

\* the roots loaded when the last triggerAttack ran
AttackRoots == {attack.loadedMidis[i] : i \in 1..Len(attack.loadedMidis)}

\* C24: the root selected for a note is a loaded root at the least
\* distance from it, and among the roots at that distance it is the lowest
C24_NearestRoot ==
  lastOp.type = "trigger-attack"
    => /\ attack.closestMidi \in AttackRoots
       /\ \A r \in AttackRoots :
            /\ Distance(attack.closestMidi, attack.actualMidi)
                 <= Distance(r, attack.actualMidi)
            /\ Distance(r, attack.actualMidi)
                 = Distance(attack.closestMidi, attack.actualMidi)
                 => attack.closestMidi <= r

\* note 54 struck with roots 48, 60 and 72 loaded, 60 first: both 48 and
\* 60 are six semitones away and 48 is selected
C24_Witness ==
  /\ lastOp = Op("trigger-attack", 54)
  /\ pianoSamples = <<60, 72, 48>>
  /\ attack.closestMidi = 48

\* 2^(d/12) in 1/POS_SCALE for the distances of PitchSpec: an octave down,
\* unison, a fourth up (1.33484), an octave up
ExpectedRate == (-12 :> 500) @@ (0 :> 1000) @@ (5 :> 1335) @@ (12 :> 2000)

\* C25: the voice created by note-on(n) has the rate 2^(d/12), where d is
\* the distance from the pitch-map entry of n + transpose to n + transpose;
\* an octave up is exactly 2.0, an octave down exactly 0.5, unison 1.0
C25_PitchRatio ==
  [][ \A n \in PitchNotes :
        (lastOp'.type = "note-on" /\ lastOp'.midi = n)
          => LET d == (n + transpose) - sampleMap[n + transpose]
             IN /\ d \in DOMAIN ExpectedRate
                /\ voices'[Len(voices')].midi = n
                /\ voices'[Len(voices')].rate = ExpectedRate[d] ]_vars

\* key 60 struck with the transposition at 12: the target is 72, the root
\* 60, the rate 2.0; an earlier voice of key 48 plays at 0.5
C25_Witness ==
  /\ lastOp = Op("note-on", 60)
  /\ transpose = 12
  /\ Len(voices) = 2
  /\ voices[2].midi = 60 /\ voices[2].rate = 2 * POS_SCALE
  /\ voices[1].midi = 48 /\ 2 * voices[1].rate = POS_SCALE

\* C26: every index read from a sample buffer during a block, floor(position)
\* and floor(position) + 1, lies in [0, sampleLength - 1], whatever the
\* length of the sample and the rate of the voice, and the block completes
\* for every voice of the pool
C26_ReadsInBounds ==
  \A r \in reads : r.indices \subseteq 0..(r.length - 1)

\* a block with a voice on an empty sample, from which nothing is read, and
\* a voice that reads up to the last but one cell of its sample
C26_Witness ==
  /\ lastOp.type = "process"
  /\ \E r \in reads : r.length = 0 /\ r.indices = {}
  /\ \E r \in reads : r.length > 2 /\ (r.length - 2) \in r.indices

\* the voices of the pool that are still there after the step keep the
\* note and the rate they were created with
KeepNoteAndRate ==
  \A k \in Indices(voices) :
    HasId(voices', voices[k].id)
      => /\ ById(voices', voices[k].id).midi = voices[k].midi
         /\ ById(voices', voices[k].id).rate = voices[k].rate

\* in the engine: the voice a note-on starts carries the note as requested,
\* and a note-off with the pedal up sets every voice of its note, and no
\* voice of another note, releasing
EngineMatchesRequestedNote ==
  \A n \in TransposeNotes :
    /\ lastOp' = Op("note-on", n) => voices'[Len(voices')].midi = n
    /\ lastOp' = Op("note-off", n)
         => \A k \in Indices(voices) :
              /\ voices[k].midi = n => voices'[k].isReleasing
              /\ voices[k].midi # n => voices'[k] = voices[k]

\* in the host: the key a note-on starts is the key recorded for the note,
\* the record stays until the note's next note-on or note-off, and a
\* note-off stops exactly the recorded key
HostMatchesRequestedNote ==
  \A n \in TransposeHostNotes :
    /\ lastOp' = Op("host-note-on", n)
         => /\ n \in DOMAIN activeNotes'
            /\ activeNotes'[n] \in DOMAIN synth'.notes
    /\ (n \in DOMAIN activeNotes /\ lastOp' = Op("host-note-off", n))
         => /\ DOMAIN synth'.notes = DOMAIN synth.notes \ {activeNotes[n]}
            /\ n \notin DOMAIN activeNotes'
    /\ (n \in DOMAIN activeNotes /\ lastOp'.type = "update-setting")
         => /\ n \in DOMAIN activeNotes'
            /\ activeNotes'[n] = activeNotes[n]
            /\ DOMAIN synth'.notes = DOMAIN synth.notes

\* C27: a note-off is matched by the note number as requested: whatever
\* the transposition was changed to since the note-on, note-off(n) releases
\* the voices (the synthesizer key) that note-on(n) started and no other,
\* and the voices keep their rate
C27_RequestedNote ==
  [][ KeepNoteAndRate /\ EngineMatchesRequestedNote
        /\ HostMatchesRequestedNote ]_vars

\* key 60 struck without transposition (rate 1.0), the transposition set to
\* 12 in the engine and in the host, then the note-off of key 60 applied:
\* the voice is releasing; in the host the key recorded for note 60 was
\* stopped
C27_Witness ==
  /\ lastOp = Op("note-off", 60)
  /\ transpose = 12
  /\ \E k \in Indices(voices) :
       /\ voices[k].midi = 60 /\ voices[k].rate = POS_SCALE
       /\ voices[k].isReleasing
  /\ settings.transpose = 12
  /\ synth.ready
  /\ DOMAIN activeNotes = {}
  /\ DOMAIN synth.notes = {}

\* the step just taken applied a sustain message with active = false
IsPedalUp(op, active) == op.type \in {"sustain", "sustain-release"} /\ ~active

\* C28: while the always-sustain setting is on, a pedal-up event releases
\* no voice and leaves the deferred note-offs deferred
C28_AsStated ==
  [][ (uiSustainEnabled /\ IsPedalUp(lastOp', sustainActive'))
        => /\ notesPendingRelease' = notesPendingRelease
           /\ \A k \in Indices(voices) :
                voices'[k].isReleasing = voices[k].isReleasing ]_vars

\* the runs of initAudio that have not settled
PendingRuns == {r \in DOMAIN runs : Pending(r)}

\* the step is a new call of startAudio()
IsNewCall == Len(callers') = Len(callers) + 1

\* C29: audio initialisation is single-flight: in every state at most one
\* run of initAudio is in progress; a call of startAudio made while a run
\* is in progress awaits that run; and a call made when the audio context
\* and the synthesizer exist begins no run, so that no second context or
\* synthesizer is created.
C29_AsStated ==
  /\ [](Cardinality(PendingRuns) <= 1)
  /\ [][ \A r \in PendingRuns :
           IsNewCall =>
             /\ callers'[Len(callers')].run = r
             /\ callers'[Len(callers')].pc = "waiting" ]_vars
  /\ [][ (audioContextRef /\ synthRef) => Len(runs') = Len(runs) ]_vars

\* the parts of C29 that hold: one run at a time, begun only while there is
\* no context and no synthesizer
C29_OneRun ==
  /\ [](Cardinality(PendingRuns) <= 1)
  /\ [][ (audioContextRef /\ synthRef) => Len(runs') = Len(runs) ]_vars

\* a call joined the run in progress, and a later call made during the same
\* run, after the context and the synthesizer were stored, did not
C29_Witness ==
  /\ Len(callers) = 3
  /\ runs = <<"soundfont">>
  /\ callers[1] = [pc |-> "initAudio", run |-> 1]
  /\ callers[2] = [pc |-> "waiting", run |-> 1]
  /\ callers[3].run = 0

\* the step is handleMidiEvent
IsMidiEvent(op) ==
  op.type \in {"host-note-on", "host-note-off", "host-sustain", "host-start"}

\* C30: a MIDI event that arrives while there is no synthesizer, the audio
\* context is not running or the samples are not loaded changes nothing of
\* the synthesizer and only begins a call of startAudio; an event that
\* arrives otherwise is handed to the synthesizer at once, after the events
\* handed over before; and no other step hands the synthesizer an event.
C30_NotReadyDiscarded ==
  [][ LET ready == synthRef /\ ctxState = "running" /\ isSamplesLoadedRef
      IN IF ~IsMidiEvent(lastOp')
         THEN synthLog' = synthLog /\ synth'.notes = synth.notes
         ELSE IF ready
         THEN /\ Len(synthLog') = Len(synthLog) + 1
              /\ SubSeq(synthLog', 1, Len(synthLog)) = synthLog
              /\ "host-" \o synthLog'[Len(synthLog')].type = lastOp'.type
              /\ synthLog'[Len(synthLog')].midi = lastOp'.midi
              /\ callers' = callers
         ELSE /\ synthLog' = synthLog
              /\ synth' = synth
              /\ activeNotes' = activeNotes
              /\ lastOp'.type = "host-start"
              /\ IsNewCall ]_vars

\* an event arrived while the SoundFont was loading, and was dropped
C30_Witness ==
  /\ lastOp.type = "host-start"
  /\ synthRef
  /\ ~isSamplesLoadedRef
  /\ runs[Len(runs)] = "soundfont"
  /\ synthLog = << >>

\* an event was handed over after the start-up that a dropped event began
C30_WitnessDelivered ==
  /\ lastOp.type = "host-note-off"
  /\ synthLog = <<Op("note-on", 60), Op("note-off", 60)>>
  /\ callers[1].pc = "returned"
====
